---- MODULE Spec2Model ----
(***************************************************************************)
(* Model of sdreader2mastodon/app.py: one invocation of main() loads the   *)
(* cache file, fetches the events page, parses one date block, shuffles    *)
(* the events, posts up to settings.n events that are not in the cache and *)
(* writes the cache file.  Runs do not overlap; every run shares the same  *)
(* cache file.  An exception raised in any step ends the run at once.      *)
(***************************************************************************)
EXTENDS Integers, Sequences, FiniteSets, TLC

(* ---- bounds of the model ---- *)
MaxRuns == 2
MaxQuota == 2
MaxBlocks == 2
MaxItems == 2

(* ---- values ---- *)
None == "None"
BaseUrl == "https://x"
Paths == {"/e/1", "/e/2"}
Dates == <<"March 3", "March 4", "March 5", "March 6">>

Range(s) == {s[k] : k \in 1..Len(s)}

SeqsUpTo(S, m) == UNION {[1..k -> S] : k \in 0..m}

(* ---- urllib.parse as used by make_event ---- *)
(* An absolute URL is [base, path, query]: scheme and host, path, query.    *)
(* An href is [path, query]; its path is absolute ("/e/1") or empty (a      *)
(* link that is only a query, "?d=2").  settings.reader_base_url is scheme  *)
(* and host with no path, so the href's path and query are the result's.    *)
urljoin(base, ref) == [base |-> base, path |-> ref.path, query |-> ref.query]

urlparse_path(u) == u.path

(* urljoin(full_url, path): an empty reference returns the base as it is,  *)
(* query included; an absolute path replaces path and query.               *)
urljoin_path(full, p) ==
    IF p = "" THEN full ELSE [base |-> full.base, path |-> p, query |-> ""]

clean_url(full) == urljoin_path(full, urlparse_path(full))

(* ---- str.strip().lower() on the category labels the pages carry ---- *)
Labels == {"Rock", " Music ", "free"}

strip_lower(s) ==
    CASE s = "Rock" -> "rock"
      [] s = " Music " -> "music"
      [] OTHER -> s

(* variant: the filter on 'music' left out *)
filter_tags_Mut(tags) == tags

filter_tags(tags) ==
    LET keep(t) == t # "music" IN SelectSeq(tags, keep)

(* ---- the event items a page can carry ---- *)
Item(title, path, query, place, time, types) ==
    [title |-> title, href |-> [path |-> path, query |-> query],
     place |-> place, time |-> time, types |-> types]

Items ==
    { Item("T1", "/e/1", "", "P1", "8pm", <<"Rock">>),
      Item("T1", "/e/1", "d=2", "P1", "8pm", <<"Rock">>),
      Item("T2", "/e/2", "", "P2", "9pm", <<" Music ", "free">>),
      Item("T2", "/e/2", "", "P2", None, <<>>) }

(* The items the parser is checked on: those above, an item without its    *)
(* event-place link, one without its event-title link, and two whose link  *)
(* is only a query.                                                        *)
ParseItems ==
    Items \cup
    { Item("T2", "/e/2", "", None, "9pm", <<>>),
      Item(None, "/e/2", "", "P2", "9pm", <<>>),
      Item("T3", "", "d=2", "P3", "7pm", <<"free">>),
      Item("T3", "", "d=3", "P3", "7pm", <<"free">>) }

(* A page is a sequence of at most MaxBlocks date blocks, each a sequence   *)
(* of event items, with at most MaxItems items on the page; the k-th block *)
(* is headed by Dates[k].                                                  *)
RECURSIVE SoupsOf(_, _)
SoupsOf(b, m) ==
    IF b = 0 THEN {<<>>}
    ELSE UNION {{<<blk>> \o rest : rest \in SoupsOf(b - 1, m - Len(blk))} :
                blk \in SeqsUpTo(Items, m)}

Soups == UNION {SoupsOf(b, MaxItems) : b \in 0..MaxBlocks}

RECURSIVE ParseSoupsOf(_, _)
ParseSoupsOf(b, m) ==
    IF b = 0 THEN {<<>>}
    ELSE UNION {{<<blk>> \o rest : rest \in ParseSoupsOf(b - 1, m - Len(blk))} :
                blk \in SeqsUpTo(ParseItems, m)}

ParseSoups == UNION {ParseSoupsOf(b, MaxItems) : b \in 0..MaxBlocks}

NoSoup == <<>>

(* ---- get_events ---- *)
make_event_raises(el) == el.title = None \/ el.place = None \/ el.time = None

make_event(el, date) ==
    [title |-> el.title,
     url |-> clean_url(urljoin(BaseUrl, el.href)),
     location |-> el.place,
     date |-> date,
     time |-> el.time,
     tags |-> filter_tags([k \in 1..Len(el.types) |-> strip_lower(el.types[k])])]

(* random.choice raises IndexError on an empty list of blocks *)
get_events_raises(doc, b) ==
    \/ Len(doc) = 0
    \/ \E k \in 1..Len(doc[b]) : make_event_raises(doc[b][k])

(* variant: find_all('div', event-item) on the whole page, not the block *)
RECURSIVE AllItems(_)
AllItems(doc) == IF doc = <<>> THEN <<>> ELSE Head(doc) \o AllItems(Tail(doc))

get_events_Mut(doc, b) ==
    [k \in 1..Len(AllItems(doc)) |-> make_event(AllItems(doc)[k], Dates[b])]

get_events(doc, b) ==
    [k \in 1..Len(doc[b]) |-> make_event(doc[b][k], Dates[b])]

(* ---- random.shuffle: every permutation of the list ---- *)
Perms(n) == {f \in [1..n -> 1..n] : \A a, b \in 1..n : a # b => f[a] # f[b]}

shuffle(evs, p) == [k \in 1..Len(evs) |-> evs[p[k]]]

(* ---- the cache file ---- *)
URLs == {clean_url(urljoin(BaseUrl, [path |-> p, query |-> ""])) : p \in Paths}

Missing == [kind |-> "missing", posts |-> <<>>]
Corrupt == [kind |-> "corrupt", posts |-> <<>>]

DistinctSeqs(S) ==
    {s \in SeqsUpTo(S, Cardinality(S)) : \A a, b \in 1..Len(s) : a # b => s[a] # s[b]}

(* get_cache: FileNotFoundError gives an empty cache; any other failure of *)
(* json.load propagates.                                                   *)
(* variant: except Exception, so a corrupt file counts as no file *)
get_cache_raises_Mut(f) == FALSE

(* variant: FileNotFoundError not caught *)
get_cache_raises_Strict_Mut(f) == f.kind # "ok"

get_cache_raises(f) == f.kind = "corrupt"

get_cache(f) == IF f.kind = "missing" THEN <<>> ELSE f.posts

(* set_cache: json.dump of cache.__dict__, overwriting the file *)
(* variant: only the newest entry is written *)
set_cache_Mut(posts) ==
    [kind |-> "ok", posts |-> IF posts = <<>> THEN <<>> ELSE <<posts[Len(posts)]>>]

set_cache(posts) == [kind |-> "ok", posts |-> posts]

(* ---- the loop of main ---- *)
quota_reached(i, n) == i >= n

(* variant: only the newest entry of the list is compared *)
in_cache_Mut(url, posts) == posts # <<>> /\ posts[Len(posts)] = url

(* variant: only the oldest entry of the list is compared *)
in_cache_First_Mut(url, posts) == posts # <<>> /\ posts[1] = url

(* variant: the event object, not its url, is looked up in the list *)
in_cache_Obj_Mut(url, posts) == FALSE

in_cache(url, posts) == \E k \in 1..Len(posts) : posts[k] = url

(* post: response.raise_for_status() raises on a non-success response *)
(* variant: raise_for_status() left out *)
post_raises_Mut(ok) == FALSE

post_raises(ok) == ~ok

(* variant: the append left out *)
record_Mut(posts, url) == posts

record(posts, url) == Append(posts, url)

(* ---- state ---- *)
VARIABLES
    file,       \* the cache file on disk
    pc,         \* position of the run in main()
    runs,       \* number of runs started
    n,          \* settings.n
    cache,      \* cache.posts
    soup,       \* the fetched page
    events,     \* the events list of main
    pos,        \* index of the loop's current event in events
    i,          \* the loop counter i
    loaded,     \* history: cache.posts as get_cache returned it in this run
    fileBefore, \* history: the file when the run started
    attempts,   \* history: post() calls of this run, [url, ok]
    log,        \* history: "post" and "set_cache" calls of this run, in order
    abortAt,    \* history: the step whose exception ended the run
    posted,     \* history: urls published successfully, over all runs
    reposted    \* history: urls published successfully more than once

vars == <<file, pc, runs, n, cache, soup, events, pos, i,
          loaded, fileBefore, attempts, log, abortAt, posted, reposted>>

Ended == pc \in {"DONE", "ABORTED"}

Init ==
    /\ file \in {Missing, Corrupt} \cup {set_cache(s) : s \in DistinctSeqs(URLs)}
    /\ pc = "IDLE"
    /\ runs = 0
    /\ n = 1
    /\ cache = <<>>
    /\ soup = NoSoup
    /\ events = <<>>
    /\ pos = 1
    /\ i = 0
    /\ loaded = <<>>
    /\ fileBefore = file
    /\ attempts = <<>>
    /\ log = <<>>
    /\ abortAt = None
    /\ posted = Range(file.posts)
    /\ reposted = {}

(* main() is invoked; get_settings.  settings.n is a field of Settings     *)
(* (default 1) that the loop reads; the runs are taken over every quota    *)
(* from 0 to MaxQuota.                                                     *)
Main_Start ==
    /\ pc \in {"IDLE", "DONE", "ABORTED"}
    /\ runs < MaxRuns
    /\ runs' = runs + 1
    /\ \E q \in 0..MaxQuota : n' = q
    /\ pc' = "LOAD_CACHE"
    /\ cache' = <<>>
    /\ soup' = NoSoup
    /\ events' = <<>>
    /\ pos' = 1
    /\ i' = 0
    /\ loaded' = <<>>
    /\ fileBefore' = file
    /\ attempts' = <<>>
    /\ log' = <<>>
    /\ abortAt' = None
    /\ UNCHANGED <<file, posted, reposted>>

(* variant: set_cache in a finally clause, reached from every exception *)
Raise_Mut(step) ==
    /\ pc' = "SAVE_CACHE"
    /\ abortAt' = step

Raise(step) ==
    /\ pc' = "ABORTED"
    /\ abortAt' = step

(* cache = get_cache(settings) *)
Main_GetCache ==
    /\ pc = "LOAD_CACHE"
    /\ IF get_cache_raises(file)
       THEN /\ Raise("LOAD_CACHE")
            /\ UNCHANGED <<cache, loaded>>
       ELSE /\ cache' = get_cache(file)
            /\ loaded' = get_cache(file)
            /\ pc' = "FETCH"
            /\ UNCHANGED abortAt
    /\ UNCHANGED <<file, runs, n, soup, events, pos, i, fileBefore, attempts, log, posted, reposted>>

(* soup = get_soup(url, settings): the request fails or returns a page *)
Main_GetSoup ==
    /\ pc = "FETCH"
    /\ \/ /\ Raise("FETCH")
          /\ UNCHANGED soup
       \/ /\ \E doc \in Soups : soup' = doc
          /\ pc' = "PARSE"
          /\ UNCHANGED abortAt
    /\ UNCHANGED <<file, runs, n, cache, events, pos, i, loaded, fileBefore, attempts, log, posted, reposted>>

(* events = get_events(soup, settings); soup is not read again *)
Main_GetEvents ==
    /\ pc = "PARSE"
    /\ \E b \in 1..(IF Len(soup) = 0 THEN 1 ELSE Len(soup)) :
         IF get_events_raises(soup, b)
         THEN /\ Raise("PARSE")
              /\ UNCHANGED events
         ELSE /\ events' = get_events(soup, b)
              /\ pc' = "SELECT"
              /\ UNCHANGED abortAt
    /\ soup' = NoSoup
    /\ UNCHANGED <<file, runs, n, cache, pos, i, loaded, fileBefore, attempts, log, posted, reposted>>

(* random.shuffle(events) *)
Main_Shuffle ==
    /\ pc = "SELECT"
    /\ \E p \in Perms(Len(events)) : events' = shuffle(events, p)
    /\ pc' = "PUBLISH"
    /\ UNCHANGED <<file, runs, n, cache, soup, pos, i, loaded, fileBefore, attempts, log, abortAt, posted, reposted>>

(* for event in events: the list is exhausted *)
Main_LoopEnd ==
    /\ pc = "PUBLISH"
    /\ pos > Len(events)
    /\ pc' = "SAVE_CACHE"
    /\ UNCHANGED <<file, runs, n, cache, soup, events, pos, i, loaded, fileBefore, attempts, log, abortAt, posted, reposted>>

(* if i >= settings.n: break *)
Main_LoopBreak ==
    /\ pc = "PUBLISH"
    /\ pos <= Len(events)
    /\ quota_reached(i, n)
    /\ pc' = "SAVE_CACHE"
    /\ UNCHANGED <<file, runs, n, cache, soup, events, pos, i, loaded, fileBefore, attempts, log, abortAt, posted, reposted>>

(* elif event.url in cache.posts: continue *)
Main_LoopSkip ==
    /\ pc = "PUBLISH"
    /\ pos <= Len(events)
    /\ ~quota_reached(i, n)
    /\ in_cache(events[pos].url, cache)
    /\ pos' = pos + 1
    /\ UNCHANGED <<file, pc, runs, n, cache, soup, events, i, loaded, fileBefore, attempts, log, abortAt, posted, reposted>>

(* else: i += 1; post(event, settings); cache.posts.append(event.url) *)
Main_LoopPost ==
    /\ pc = "PUBLISH"
    /\ pos <= Len(events)
    /\ ~quota_reached(i, n)
    /\ ~in_cache(events[pos].url, cache)
    /\ i' = i + 1
    /\ \E ok \in BOOLEAN :
         /\ attempts' = Append(attempts, [url |-> events[pos].url, ok |-> ok])
         /\ log' = Append(log, "post")
         /\ posted' = IF ok THEN posted \cup {events[pos].url} ELSE posted
         /\ reposted' = IF ok /\ events[pos].url \in posted
                        THEN reposted \cup {events[pos].url} ELSE reposted
         /\ IF post_raises(ok)
            THEN /\ Raise("PUBLISH")
                 /\ UNCHANGED <<cache, pos>>
            ELSE /\ cache' = record(cache, events[pos].url)
                 /\ pos' = pos + 1
                 /\ UNCHANGED <<pc, abortAt>>
    /\ UNCHANGED <<file, runs, n, soup, events, loaded, fileBefore>>

(* set_cache(cache, settings) *)
Main_SetCache ==
    /\ pc = "SAVE_CACHE"
    /\ file' = set_cache(cache)
    /\ log' = Append(log, "set_cache")
    /\ pc' = "DONE"
    /\ UNCHANGED <<runs, n, cache, soup, events, pos, i, loaded, fileBefore, attempts, abortAt, posted, reposted>>

Next ==
    \/ Main_Start
    \/ Main_GetCache
    \/ Main_GetSoup
    \/ Main_GetEvents
    \/ Main_Shuffle
    \/ Main_LoopEnd
    \/ Main_LoopBreak
    \/ Main_LoopSkip
    \/ Main_LoopPost
    \/ Main_SetCache

Spec == Init /\ [][Next]_vars

(* get_events on its own: a first run that has fetched a page, any page of *)
(* ParseSoups, and is about to parse it.                                   *)
InitParse ==
    /\ file = Missing
    /\ pc = "PARSE"
    /\ runs = 1
    /\ n = 1
    /\ cache = get_cache(Missing)
    /\ soup \in ParseSoups
    /\ events = <<>>
    /\ pos = 1
    /\ i = 0
    /\ loaded = get_cache(Missing)
    /\ fileBefore = Missing
    /\ attempts = <<>>
    /\ log = <<>>
    /\ abortAt = None
    /\ posted = {}
    /\ reposted = {}

SpecParse == InitParse /\ [][Main_GetEvents]_vars

(* ======================= properties ======================= *)
Min(a, b) == IF a <= b THEN a ELSE b

Succeeded == {attempts[k].url : k \in {j \in 1..Len(attempts) : attempts[j].ok}}

Failed == {attempts[k].url : k \in {j \in 1..Len(attempts) : ~attempts[j].ok}}

Attempted == {attempts[k].url : k \in 1..Len(attempts)}

(* the run got as far as the loop of main and has left it *)
LoopLeft == pc \in {"SAVE_CACHE", "DONE"} \/ (pc = "ABORTED" /\ abortAt = "PUBLISH")

UnseenEvents == {k \in 1..Len(events) : events[k].url \notin Range(loaded)}

UnseenUrls == {events[k].url : k \in UnseenEvents}

Saves == Cardinality({k \in 1..Len(log) : log[k] = "set_cache"})

C2_Dedupe ==
    \A k \in 1..Len(attempts) :
        /\ attempts[k].url \notin Range(loaded)
        /\ \A j \in 1..(k - 1) : attempts[j].ok => attempts[j].url # attempts[k].url

(* C2 witness: the loop passed an event whose url was loaded from the file *)
(* and posted another event.                                               *)
C2_Witness ==
    /\ pc = "DONE"
    /\ Len(attempts) = 1
    /\ \E k \in 1..Len(events) : events[k].url \in Range(loaded)

C4_OnlySuccessRecorded ==
    /\ Range(cache) \subseteq Range(loaded) \cup Succeeded
    /\ Range(file.posts) \subseteq Range(fileBefore.posts) \cup Succeeded
    /\ \A u \in Failed \ Succeeded : u \notin Range(cache) /\ u \notin Range(file.posts)

(* C4 witness: a publish attempt failed after an earlier one succeeded.    *)
C4_Witness ==
    /\ pc = "ABORTED"
    /\ Len(attempts) = 2
    /\ attempts[1].ok
    /\ ~attempts[2].ok

(* C5: a failed publish attempt does not abort the run, and every selected *)
(* event gets its publish attempt whatever the outcome of the others.      *)
C5_FailureRecovered ==
    Failed # {} =>
        /\ pc # "ABORTED"
        /\ Ended => Len(attempts) = Min(n, Cardinality(UnseenUrls))

(* C6: a run whose cache load and fetch succeeded ends in DONE, after      *)
(* SAVE_CACHE, also with zero events and when publish attempts fail.       *)
C6_ReachesDone ==
    /\ pc = "ABORTED" => abortAt \in {"LOAD_CACHE", "FETCH"}
    /\ pc = "DONE" => Saves = 1

(* C7: a run that made its publish attempts persists the store exactly     *)
(* once, after all of them, and set_cache is never followed or preceded by *)
(* a later publish attempt.                                                *)
C7_SavedOnce ==
    /\ \A k \in 1..Len(log) : log[k] = "set_cache" => k = Len(log)
    /\ (Ended /\ LoopLeft) => Saves = 1

(* C8: after a run in which every publish attempt succeeded, the persisted *)
(* store holds exactly the urls it held before the run plus the url of     *)
(* every event published in the run.                                       *)
C8_SuccessRecorded ==
    (Ended /\ Failed = {}) =>
        Range(file.posts) = Range(fileBefore.posts) \cup Attempted

(* C8 witness: store {B}, events A and B, quota 1: A is published and the  *)
(* file then holds B and A.                                                *)
C8_Witness ==
    /\ pc = "DONE"
    /\ n = 1
    /\ Len(events) = 2
    /\ Len(fileBefore.posts) = 1
    /\ Len(attempts) = 1
    /\ attempts[1].ok
    /\ file.posts = Append(fileBefore.posts, attempts[1].url)

(* C9: every url that was in the persisted store before a run is still in  *)
(* it at every point of the run and after it, however the run ends, and a  *)
(* store that existed still exists.                                        *)
C9_HistoryKept ==
    /\ Range(fileBefore.posts) \subseteq Range(file.posts)
    /\ fileBefore.kind = "ok" => file.kind = "ok"

(* C9 witness: a run that started from a non-empty store published and     *)
(* saved.                                                                  *)
C9_Witness ==
    /\ pc = "DONE"
    /\ fileBefore.posts # <<>>
    /\ Succeeded # {}

(* C10: when the cache file exists but does not deserialize, the run       *)
(* aborts in get_cache, before any publish attempt, and the file is left   *)
(* as it was.                                                              *)
C10_CorruptFatal ==
    (runs > 0 /\ fileBefore.kind = "corrupt") =>
        /\ pc \in {"LOAD_CACHE", "ABORTED"}
        /\ pc = "ABORTED" => abortAt = "LOAD_CACHE"
        /\ attempts = <<>>
        /\ log = <<>>
        /\ file = fileBefore

(* C10 witness: a run aborted on a corrupt cache file.                     *)
C10_Witness ==
    /\ pc = "ABORTED"
    /\ abortAt = "LOAD_CACHE"
    /\ fileBefore.kind = "corrupt"

(* C11: when the page cannot be fetched, the run ends with no publish      *)
(* attempt and no set_cache call, and the cache file is exactly what it    *)
(* was before the run.                                                     *)
C11_FetchErrorNoWrite ==
    abortAt = "FETCH" =>
        /\ pc = "ABORTED"
        /\ attempts = <<>>
        /\ log = <<>>
        /\ file = fileBefore

(* C11 witness: a run whose fetch failed, started without a cache file.    *)
C11_Witness ==
    /\ pc = "ABORTED"
    /\ abortAt = "FETCH"
    /\ fileBefore = Missing

(* C12: for a page with no date block get_events returns the empty         *)
(* sequence instead of raising, and the run goes on with nothing to        *)
(* publish.                                                                *)
C12_NoBlocksNoError ==
    [][(pc = "PARSE" /\ Len(soup) = 0) => (pc' = "SELECT" /\ events' = <<>>)]_vars

(* an item that has its title link, its location and its time *)
WellFormed(el) == el.title # None /\ el.place # None /\ el.time # None

(* evs are the events of the items of blk, one for one and in order, with  *)
(* the heading date                                                        *)
FromBlock(evs, blk, date) ==
    /\ Len(evs) = Len(blk)
    /\ \A k \in 1..Len(blk) :
        /\ evs[k].date = date
        /\ evs[k].title = blk[k].title
        /\ evs[k].location = blk[k].place
        /\ evs[k].time = blk[k].time
        /\ evs[k].url.path = blk[k].href.path

(* C13: an item that lacks its title link, location or time is skipped on  *)
(* its own: get_events returns the well-formed items of the chosen block,  *)
(* in document order, and never aborts the parse.                          *)
C13_MalformedIsolated ==
    [][(pc = "PARSE" /\ Len(soup) > 0) =>
        /\ pc' = "SELECT"
        /\ \E b \in 1..Len(soup) :
             FromBlock(events', SelectSeq(soup[b], WellFormed), Dates[b])]_vars

(* C14: the events one call of get_events returns are all the items of     *)
(* exactly one date block of the page, in document order, each with that   *)
(* block's heading as date; no item of another block is among them.        *)
C14_OneBlock ==
    [][(pc = "PARSE" /\ pc' = "SELECT") =>
        \E b \in 1..Len(soup) : FromBlock(events', soup[b], Dates[b])]_vars

(* C14 witness: the second block of a page was parsed and gave two events. *)
C14_Witness ==
    /\ pc = "SELECT"
    /\ Len(events) = 2
    /\ events[1].date = Dates[2]

(* C15: Event.url ignores the query string of the item's link: two items   *)
(* whose links differ only in the query get the same url, and cleaning a   *)
(* url that is already clean returns it unchanged.                         *)
C15_StableIdentity ==
    [][(pc = "PARSE" /\ pc' = "SELECT") =>
        \E b \in 1..Len(soup) :
            /\ Len(events') = Len(soup[b])
            /\ \A k \in 1..Len(soup[b]) :
                /\ events'[k].date = Dates[b]
                /\ clean_url(events'[k].url) = events'[k].url
                /\ \A j \in 1..Len(soup[b]) :
                    soup[b][j].href.path = soup[b][k].href.path
                        => events'[j].url = events'[k].url]_vars

(* tags are the labels, trimmed and lower-cased, without every "music" and *)
(* with the others in their order                                          *)
TagsAsClaimed(labels, tags) ==
    LET norm == [j \in 1..Len(labels) |-> strip_lower(labels[j])]
        kept == {j \in 1..Len(labels) : norm[j] # "music"}
    IN  /\ "music" \notin Range(tags)
        /\ Len(tags) = Cardinality(kept)
        /\ \E f \in [1..Len(tags) -> kept] :
            /\ \A x, y \in 1..Len(tags) : x < y => f[x] < f[y]
            /\ \A x \in 1..Len(tags) : tags[x] = norm[f[x]]

C17_SingleAttempt ==
    \A j, k \in 1..Len(attempts) : j # k => attempts[j].url # attempts[k].url

(* C17 witness: two parsed events share a url; with quota 2 the first was  *)
(* posted and the loop went past the second without a post.                *)
C17_Witness ==
    /\ n = 2
    /\ Len(events) = 2
    /\ events[1].url = events[2].url
    /\ pos = 3
    /\ Len(attempts) = 1

NoDup(s) == \A a, b \in 1..Len(s) : a # b => s[a] # s[b]

(* C18: if the list loaded at the start of a run holds no url twice, the   *)
(* list in memory and the list written at the end hold no url twice.       *)
C18_NoDuplicateRecorded ==
    NoDup(loaded) =>
        /\ NoDup(cache)
        /\ pc = "DONE" => NoDup(file.posts)

(* C18 witness: a run that loaded one url parsed two events sharing a new  *)
(* url and wrote a list of two urls.                                       *)
C18_Witness ==
    /\ pc = "DONE"
    /\ n = 2
    /\ Len(loaded) = 1
    /\ Len(events) = 2
    /\ events[1].url = events[2].url
    /\ Len(file.posts) = 2

(* C19: with no cache file, get_cache gives an empty list and raises       *)
(* nothing, and when the run has reached its end the file exists and holds *)
(* exactly the urls published in the run.                                  *)
C19_FirstRun ==
    (runs > 0 /\ fileBefore.kind = "missing") =>
        /\ abortAt # "LOAD_CACHE"
        /\ loaded = <<>>
        /\ pc = "DONE" =>
            /\ file.kind = "ok"
            /\ file.posts = [k \in 1..Len(attempts) |-> attempts[k].url]
            /\ Range(file.posts) = Succeeded

(* C19 witness: a first run without a cache file published two events and  *)
(* saved.                                                                  *)
C19_Witness ==
    /\ pc = "DONE"
    /\ fileBefore = Missing
    /\ Len(attempts) = 2

====
